---- MODULE Spec2Model ----
(***************************************************************************)
(* The conversational escalation session engine of the help-desk chat      *)
(* widget (frontend/src/components/ChatWidget.tsx): the message timeline,  *)
(* the tracked escalations, the response poller with its render closures,  *)
(* the dispatch router, the CSAT survey and the localStorage persistence.  *)
(*                                                                         *)
(* React state is modelled as variables; a handler together with the       *)
(* render and the effects it triggers is one action.  Every await is a     *)
(* suspension point: a request in flight is an element of a bag, and the   *)
(* values its continuation closed over are fields of that element.         *)
(***************************************************************************)
EXTENDS Integers, Sequences, FiniteSets, Bags, TLC

VARIABLES
    now,                 \* Date.now(), in milliseconds
    messages,            \* useState<Message[]>
    pendingEscalations,  \* useState<string[]>
    showCSAT,            \* useState<string | null>
    csatRating,          \* useState(0)
    csatSubmitted,       \* useState<string[]>
    shownMessageCounts,  \* useState<Record<string, number>>
    language,            \* useState<'ru' | 'kz'>
    isTyping,            \* useState(false): the send button is disabled while true
    sessionId,           \* useState(getSessionId): no setter
    storage,             \* localStorage, the five STORAGE_KEYS
    cycles,              \* checkForResponses invocations awaiting getEscalation
    sends,               \* handleSend invocations awaiting the send
    timers,              \* setTimeout callbacks of handleSend not yet run
    csats,               \* handleSubmitCSAT invocations awaiting submitCSAT
    backend,             \* the escalations the backend holds
    csatCalls,           \* history: submitCSAT calls per id since the last reset
    acked,               \* history: ids whose submitCSAT the backend acknowledged
    dismissed,           \* history: ids whose survey was skipped or rated since the last reset
    page,                \* "rendered", or "crashed" once a render has thrown
    selectedTicket,      \* operator page: the escalation whose chat is shown
    transcript           \* operator page: the merged chat as rendered

vars == <<now, messages, pendingEscalations, showCSAT, csatRating, csatSubmitted,
          shownMessageCounts, language, isTyping, sessionId, storage, cycles, sends, timers,
          csats, backend, csatCalls, acked, dismissed, page, selectedTicket,
          transcript>>

\* the state of the operator page
operatorPage == <<selectedTicket, transcript>>

(* ------------------------------ bounds -------------------------------- *)
StartTime == 1700
MaxTime == 1
MaxMsgs == 3
MaxOps == 1
MaxCycles == 2
MaxSends == 1
MaxCalls == 2
MaxHistory == 3
MaxReal == 2
MaxBacklog == 2

(* --------------------------- value domains ---------------------------- *)
NULL == "null"
EscIds == {"ESC-1", "ESC-2"}
TicketIds == {"TKT-1"}
AllIds == EscIds \cup TicketIds
Languages == {"ru", "kz"}
Stars == {1, 5}
RandomSuffixes == {"a", "b"}
Statuses == {"pending", "in_progress", "resolved"}

Range(s) == {s[k] : k \in DOMAIN s}

\* mutant: nothing is filtered out
Filter_Nothing(s, x) == s

\* prev.filter((id) => id !== x)
RECURSIVE Filter(_, _)
Filter(s, x) ==
    IF s = <<>> THEN <<>>
    ELSE IF Head(s) = x THEN Filter(Tail(s), x)
    ELSE <<Head(s)>> \o Filter(Tail(s), x)

(* --------------------------- Session Store ---------------------------- *)
MsPerSecond == 1000

\* mutant: the timestamp is written with a resolution of one second
ToISOString_Seconds(ms) == [sec |-> ms \div MsPerSecond, frac |-> 0]

\* Date.prototype.toJSON: the ISO string, seconds and a millisecond fraction
ToISOString(ms) == [sec |-> ms \div MsPerSecond, frac |-> ms % MsPerSecond]

\* new Date(isoString).getTime()
ParseDate(iso) == iso.sec * MsPerSecond + iso.frac

\* JSON.stringify(messages)
StringifyMessages(ms) ==
    [k \in DOMAIN ms |-> [ms[k] EXCEPT !.timestamp = ToISOString(ms[k].timestamp)]]

\* loadMessages
loadMessages(saved) ==
    [k \in DOMAIN saved |-> [saved[k] EXCEPT !.timestamp = ParseDate(saved[k].timestamp)]]

loadEscalations(saved) == saved

loadCSATSubmitted(saved) == saved

loadLanguage(saved) == IF saved = "kz" THEN "kz" ELSE "ru"

\* localStorage.getItem(STORAGE_KEYS.SESSION_ID) when the key was never written
Missing == [t |-> 0, r |-> ""]

\* `session-${Date.now()}-${Math.random()...}`
NewSessionId(t, r) == [t |-> t, r |-> r]

\* the four persistence effects, run after the render that follows a handler
SaveEffects(sid) ==
    storage' = [messages |-> StringifyMessages(messages'),
                escalations |-> pendingEscalations',
                csatSubmitted |-> csatSubmitted',
                language |-> language',
                sessionId |-> sid]

(* -------------------------- Message Timeline -------------------------- *)
Message(id, content, isBot, isOperator, ts, tool) ==
    [id |-> id, content |-> content, isBot |-> isBot, isOperator |-> isOperator,
     timestamp |-> ts, toolCall |-> tool]

NoTool == [name |-> "none", id |-> ""]

\* id: Date.now().toString()
TimeId(t) == <<"ts", "", 0, t>>

UserMessage(text) ==
    Message(TimeId(now), <<text, "", 0>>, FALSE, FALSE, now, NoTool)

\* addBotMessage
BotMessage(text, lang, tool) ==
    Message(TimeId(now), <<text, lang, 0>>, TRUE, FALSE, now, tool)

\* the entry checkForResponses appends for operator message idx of escalation e
OperatorMessage(e, idx, ts) ==
    Message(<<"operator", e, idx, now>>, <<"operator", e, idx>>, TRUE, TRUE, ts, NoTool)

ThanksMessage(e, rating) ==
    Message(<<"csat-thanks", e, 0, 0>>, <<"thanks", e, rating>>, TRUE, FALSE, now, NoTool)

ZeroCounts == [e \in AllIds |-> 0]

(* --------------------------- Response Poller -------------------------- *)
\* One invocation of checkForResponses: the escalations its for-loop has still to
\* poll (the head is the one whose getEscalation it awaits), the values of
\* shownMessageCounts and csatSubmitted it closed over, and the response once the
\* backend has produced it.  The closure is read only at the escalations still
\* to be polled, so only that part of it is kept.
Closure(rest, shown, csat) ==
    [rest |-> rest,
     shown |-> [e \in AllIds |-> IF e \in Range(rest) THEN shown[e] ELSE 0],
     csat |-> csat \cap Range(rest),
     got |-> FALSE, n |-> 0, status |-> "pending"]

\* the polling effect body: no cycle and no interval when nothing is tracked,
\* otherwise checkForResponses() at once
PollingEffect(pend, shown, csat) ==
    IF Len(pend) = 0 THEN EmptyBag
    ELSE SetToBag({Closure(pend, shown, csat)})

\* mutant: the loop ends with the escalation it has just polled
NextIteration_Stops(c) == EmptyBag

\* the for-loop of checkForResponses moving on to its next escalation
NextIteration(c) ==
    IF Len(c.rest) > 1
    THEN SetToBag({Closure(Tail(c.rest), c.shown, c.csat)})
    ELSE EmptyBag

(* ------------------------------- Init --------------------------------- *)
\* the operator page before an escalation is selected
NoTicket == [created_at |-> 0, history |-> <<>>, client |-> <<>>, operator |-> <<>>]

Init ==
    /\ now = StartTime
    /\ messages = <<>>
    /\ pendingEscalations = <<>>
    /\ showCSAT = NULL
    /\ csatRating = 0
    /\ csatSubmitted = <<>>
    /\ shownMessageCounts = ZeroCounts
    /\ language = "ru"
    /\ isTyping = FALSE
    /\ sessionId = NewSessionId(StartTime, "a")
    /\ storage = [messages |-> <<>>, escalations |-> <<>>,
                  csatSubmitted |-> <<>>, language |-> "ru",
                  sessionId |-> NewSessionId(StartTime, "a")]
    /\ cycles = EmptyBag
    /\ sends = EmptyBag
    /\ timers = EmptyBag
    /\ csats = EmptyBag
    /\ backend = [e \in AllIds |-> [status |-> "none", ops |-> <<>>]]
    /\ csatCalls = ZeroCounts
    /\ acked = {}
    /\ dismissed = {}
    /\ page = "rendered"
    /\ selectedTicket = NoTicket
    /\ transcript = <<>>

\* The page as it is loaded when localStorage holds a conversation with two
\* tracked escalations: two messages were sent with Enter one right after the
\* other, the assistant answered each with an escalation, and the page was
\* loaded again before the replies were shown.
TwoTrackedStorage ==
    [messages |-> StringifyMessages(
                     <<Message(TimeId(StartTime), <<"user", "", 0>>, FALSE, FALSE,
                               StartTime, NoTool),
                       Message(TimeId(StartTime), <<"user", "", 0>>, FALSE, FALSE,
                               StartTime, NoTool)>>),
     escalations |-> <<"ESC-1", "ESC-2">>,
     csatSubmitted |-> <<>>,
     language |-> "ru",
     sessionId |-> NewSessionId(StartTime, "a")]

InitTwoTracked ==
    /\ now = StartTime
    /\ storage = TwoTrackedStorage
    /\ messages = loadMessages(storage.messages)
    /\ pendingEscalations = loadEscalations(storage.escalations)
    /\ showCSAT = NULL
    /\ csatRating = 0
    /\ csatSubmitted = loadCSATSubmitted(storage.csatSubmitted)
    /\ shownMessageCounts = ZeroCounts
    /\ language = loadLanguage(storage.language)
    /\ isTyping = FALSE
    /\ sessionId = storage.sessionId
    /\ cycles = PollingEffect(pendingEscalations, shownMessageCounts,
                              Range(csatSubmitted))
    /\ sends = EmptyBag
    /\ timers = EmptyBag
    /\ csats = EmptyBag
    /\ backend = [e \in AllIds |->
                    [status |-> IF e \in EscIds THEN "pending" ELSE "none",
                     ops |-> <<>>]]
    /\ csatCalls = ZeroCounts
    /\ acked = {}
    /\ dismissed = {}
    /\ page = "rendered"
    /\ selectedTicket = NoTicket
    /\ transcript = <<>>

\* The browser before the widget has ever been loaded: nothing is stored under
\* the five keys (a missing list loads as [], a missing language as 'ru') and
\* no component is mounted.
InitFirstVisit ==
    /\ now = StartTime
    /\ storage = [messages |-> <<>>, escalations |-> <<>>, csatSubmitted |-> <<>>,
                  language |-> NULL, sessionId |-> Missing]
    /\ page = "blank"
    /\ sessionId = Missing
    /\ messages = <<>>
    /\ pendingEscalations = <<>>
    /\ showCSAT = NULL
    /\ csatRating = 0
    /\ csatSubmitted = <<>>
    /\ shownMessageCounts = ZeroCounts
    /\ language = loadLanguage(storage.language)
    /\ isTyping = FALSE
    /\ cycles = EmptyBag
    /\ sends = EmptyBag
    /\ timers = EmptyBag
    /\ csats = EmptyBag
    /\ backend = [e \in AllIds |-> [status |-> "none", ops |-> <<>>]]
    /\ csatCalls = ZeroCounts
    /\ acked = {}
    /\ dismissed = {}
    /\ selectedTicket = NoTicket
    /\ transcript = <<>>

Tick ==
    /\ now < StartTime + MaxTime
    /\ now' = now + 1
    /\ UNCHANGED <<messages, pendingEscalations, showCSAT, csatRating, csatSubmitted,
                   shownMessageCounts, language, isTyping, sessionId, storage, cycles, sends,
                   timers, csats, backend, csatCalls, acked, dismissed,
                   page, operatorPage>>

(* --------------------------- Dispatch Router -------------------------- *)
\* mutant: an escalation is active only when more than one is tracked
getActiveEscalationId_OffByOne ==
    IF Len(pendingEscalations) > 1 THEN pendingEscalations[1] ELSE NULL

\* getActiveEscalationId: the first tracked identifier, undefined when none
getActiveEscalationId ==
    IF Len(pendingEscalations) > 0 THEN pendingEscalations[1] ELSE NULL

\* the request handleSend issues: sendToEscalation when an escalation is active,
\* chatApi.send otherwise; lang is the language the handler closed over
SendRequest(active) ==
    [to |-> IF active # NULL THEN active ELSE "assistant", lang |-> language]

InFlightSends == BagCardinality(sends) + BagCardinality(timers)

\* handleSend up to its await: the visitor's message is appended, the request leaves
handleSend ==
    /\ Len(messages) < MaxMsgs
    /\ InFlightSends < MaxSends
    /\ messages' = Append(messages, UserMessage("user"))
    /\ isTyping' = TRUE
    /\ sends' = sends (+) SetToBag({SendRequest(getActiveEscalationId)})
    /\ UNCHANGED <<now, pendingEscalations, showCSAT, csatRating, csatSubmitted,
                   shownMessageCounts, language, sessionId, cycles, timers, csats,
                   backend, csatCalls, acked, dismissed,
                   page, operatorPage>>
    /\ SaveEffects(storage.sessionId)

\* the send button: disabled={!input.trim() || isTyping}
HandleSend ==
    /\ ~isTyping
    /\ handleSend

\* handleKeyPress, Enter without Shift: handleSend whatever isTyping is
HandleKeyPress == handleSend

Timer(kind, lang, tool) == [kind |-> kind, lang |-> lang, tool |-> tool]

\* mutant: after sendToEscalation the message is passed to the assistant as well
SendToEscalationOk_AlsoAsksAssistant ==
    \E req \in BagToSet(sends) :
        /\ req.to # "assistant"
        /\ sends' = (sends (-) SetToBag({req})) (+)
                    SetToBag({[to |-> "assistant", lang |-> req.lang]})
        /\ timers' = timers (+) SetToBag({Timer("forwarded", req.lang, NoTool)})
        /\ UNCHANGED <<now, messages, pendingEscalations, showCSAT, csatRating,
                       csatSubmitted, shownMessageCounts, language, isTyping, sessionId, storage,
                       cycles, csats, backend, csatCalls, acked, dismissed,
                       page, operatorPage>>

\* sendToEscalation resolved: the acknowledgment is scheduled (setTimeout 300)
SendToEscalationOk ==
    \E req \in BagToSet(sends) :
        /\ req.to # "assistant"
        /\ sends' = sends (-) SetToBag({req})
        /\ timers' = timers (+) SetToBag({Timer("forwarded", req.lang, NoTool)})
        /\ UNCHANGED <<now, messages, pendingEscalations, showCSAT, csatRating,
                       csatSubmitted, shownMessageCounts, language, isTyping, sessionId, storage,
                       cycles, csats, backend, csatCalls, acked, dismissed,
                   page, operatorPage>>

\* either send rejected: the catch block schedules the fallback (setTimeout 500)
SendFail ==
    \E req \in BagToSet(sends) :
        /\ sends' = sends (-) SetToBag({req})
        /\ timers' = timers (+) SetToBag({Timer("error", req.lang, NoTool)})
        /\ UNCHANGED <<now, messages, pendingEscalations, showCSAT, csatRating,
                       csatSubmitted, shownMessageCounts, language, isTyping, sessionId, storage,
                       cycles, csats, backend, csatCalls, acked, dismissed,
                   page, operatorPage>>

\* the tool_call results the assistant can return: none, one that created an
\* escalation or a ticket the backend did not hold before, and results that
\* carry no new identifier
ToolResults ==
    {NoTool, [name |-> "escalate_to_operator", id |-> ""],
     [name |-> "check_ticket_status", id |-> "TKT-1"]}
    \cup {[name |-> "escalate_to_operator", id |-> e] :
            e \in {x \in EscIds : backend[x].status = "none"}}
    \cup {[name |-> "create_ticket", id |-> t] :
            t \in {x \in TicketIds : backend[x].status = "none"}}

\* mutant: the identifier of any tool_call result is tracked
TrackedIdOf_AnyTool(tool) == tool.id

\* the identifier handleSend starts tracking for a tool_call, "" when none
TrackedIdOf(tool) ==
    IF tool.name = "escalate_to_operator" /\ tool.id # "" THEN tool.id
    ELSE IF tool.name = "create_ticket" /\ tool.id # "" THEN tool.id
    ELSE ""

\* chatApi.send resolved: a created identifier is tracked at once, which restarts
\* the polling effect; the reply itself is scheduled (setTimeout 500)
AssistantReplies(tools) ==
    \E req \in BagToSet(sends), tool \in tools :
        /\ req.to = "assistant"
        /\ sends' = sends (-) SetToBag({req})
        /\ timers' = timers (+) SetToBag({Timer("reply", req.lang, tool)})
        /\ backend' = IF tool.id # "" /\ tool.name # "check_ticket_status"
                      THEN [backend EXCEPT ![tool.id].status =
                              IF tool.id \in EscIds THEN "pending" ELSE "ticket"]
                      ELSE backend
        /\ pendingEscalations' =
              IF TrackedIdOf(tool) # ""
              THEN Append(pendingEscalations, TrackedIdOf(tool))
              ELSE pendingEscalations
        /\ cycles' =
              IF TrackedIdOf(tool) # ""
              THEN cycles (+) PollingEffect(pendingEscalations', shownMessageCounts,
                                            Range(csatSubmitted))
              ELSE cycles
        /\ BagCardinality(cycles') <= MaxCycles
        /\ UNCHANGED <<now, messages, showCSAT, csatRating, csatSubmitted,
                       shownMessageCounts, language, isTyping, sessionId, csats, csatCalls,
                       acked, dismissed,
                   page, operatorPage>>
        /\ SaveEffects(storage.sessionId)

AssistantReply == AssistantReplies(ToolResults)

\* mutant: the delayed reply is put at the head of the timeline
TimerFire_Prepends ==
    \E t \in BagToSet(timers) :
        /\ Len(messages) < MaxMsgs
        /\ timers' = timers (-) SetToBag({t})
        /\ messages' = <<BotMessage(t.kind, t.lang, t.tool)>> \o messages
        /\ isTyping' = FALSE
        /\ UNCHANGED <<now, pendingEscalations, showCSAT, csatRating, csatSubmitted,
                       shownMessageCounts, language, sessionId, cycles, sends, csats,
                       backend, csatCalls, acked, dismissed,
                   page, operatorPage>>
        /\ SaveEffects(storage.sessionId)

\* a setTimeout callback of handleSend: addBotMessage
TimerFire ==
    \E t \in BagToSet(timers) :
        /\ Len(messages) < MaxMsgs
        /\ timers' = timers (-) SetToBag({t})
        /\ messages' = Append(messages, BotMessage(t.kind, t.lang, t.tool))
        /\ isTyping' = FALSE
        /\ UNCHANGED <<now, pendingEscalations, showCSAT, csatRating, csatSubmitted,
                       shownMessageCounts, language, sessionId, cycles, sends, csats,
                       backend, csatCalls, acked, dismissed,
                   page, operatorPage>>
        /\ SaveEffects(storage.sessionId)

(* ------------------------- operator's side ---------------------------- *)
\* the operator page sends a response: the backend appends it to the
\* escalation's operator_messages with its own timestamp
OperatorRepliesTo(e, max) ==
    /\ backend[e].status \in Statuses
    /\ Len(backend[e].ops) < max
    /\ backend' = [backend EXCEPT ![e].ops = Append(@, now)]
    /\ UNCHANGED <<now, messages, pendingEscalations, showCSAT, csatRating,
                   csatSubmitted, shownMessageCounts, language, isTyping, sessionId,
                   storage, cycles, sends, timers, csats, csatCalls, acked, dismissed,
                   page, operatorPage>>

OperatorReplyTo(e) == OperatorRepliesTo(e, MaxOps)

\* the operator page changes the status (take, resolve, status buttons)
OperatorSetsStatus(e) ==
    \E s \in Statuses :
        /\ backend[e].status \in Statuses \ {s}
        /\ backend' = [backend EXCEPT ![e].status = s]
        /\ UNCHANGED <<now, messages, pendingEscalations, showCSAT, csatRating,
                       csatSubmitted, shownMessageCounts, language, isTyping, sessionId,
                       storage, cycles, sends, timers, csats, csatCalls, acked, dismissed,
                   page, operatorPage>>

OperatorReply == \E e \in EscIds : OperatorReplyTo(e)

OperatorSetStatus == \E e \in EscIds : OperatorSetsStatus(e)

\* The widget learns of the operator's steps through getEscalation alone, and
\* they commute with every step of the widget but the backend's answer to it:
\* it is enough to let the operator act while a request for the escalation is
\* awaited.
Awaited(e) == \E c \in BagToSet(cycles) : ~c.got /\ c.rest[1] = e

ObservedOperator ==
    \E e \in EscIds : Awaited(e) /\ (OperatorReplyTo(e) \/ OperatorSetsStatus(e))

\* the same with an operator who writes up to max messages to an escalation
ObservedOperatorUpTo(max) ==
    \E e \in EscIds : Awaited(e) /\ (OperatorRepliesTo(e, max) \/ OperatorSetsStatus(e))

(* ----------------------- Response Poller: steps ------------------------ *)
\* setInterval fires: the callback of the current effect starts a cycle; the
\* effect re-runs whenever one of its three dependencies changes, so its
\* closure holds the current values
IntervalTick ==
    /\ Len(pendingEscalations) # 0
    /\ BagCardinality(cycles) < MaxCycles
    /\ cycles' = cycles (+) PollingEffect(pendingEscalations, shownMessageCounts,
                                          Range(csatSubmitted))
    /\ UNCHANGED <<now, messages, pendingEscalations, showCSAT, csatRating,
                   csatSubmitted, shownMessageCounts, language, isTyping, sessionId, storage,
                   sends, timers, csats, backend, csatCalls, acked, dismissed,
                   page, operatorPage>>

\* the backend answers getEscalation with what it holds at that moment
PollServeOf(c) ==
        /\ ~c.got
        /\ backend[c.rest[1]].status \in Statuses
        /\ cycles' = (cycles (-) SetToBag({c})) (+)
                     SetToBag({[c EXCEPT !.got = TRUE,
                                         !.n = Len(backend[c.rest[1]].ops),
                                         !.status = backend[c.rest[1]].status]})
        /\ UNCHANGED <<now, messages, pendingEscalations, showCSAT, csatRating,
                       csatSubmitted, shownMessageCounts, language, isTyping, sessionId, storage,
                       sends, timers, csats, backend, csatCalls, acked, dismissed,
                   page, operatorPage>>

PollServe == \E c \in BagToSet(cycles) : PollServeOf(c)

\* getEscalation of cycle c rejected: the catch block logs, the loop goes on
PollFailOf(c) ==
        /\ cycles' = (cycles (-) SetToBag({c})) (+) NextIteration(c)
        /\ UNCHANGED <<now, messages, pendingEscalations, showCSAT, csatRating,
                       csatSubmitted, shownMessageCounts, language, isTyping, sessionId, storage,
                       sends, timers, csats, backend, csatCalls, acked, dismissed,
                   page, operatorPage>>

PollFail == \E c \in BagToSet(cycles) : PollFailOf(c)

\* mutant: slice(shownCount + 1), the first new message is left out
NewOperatorMessages_SkipsFirst(e, shownCount, n) ==
    [k \in 1..(n - shownCount - 1) |->
        OperatorMessage(e, shownCount + k, backend[e].ops[shownCount + k + 1])]

\* operatorMessages.slice(shownCount), each mapped to a timeline entry
NewOperatorMessages(e, shownCount, n) ==
    [k \in 1..(n - shownCount) |->
        OperatorMessage(e, shownCount + k - 1, backend[e].ops[shownCount + k])]

\* the continuation of cycle c of checkForResponses after getEscalation resolved,
\* up to the next await, followed by the render and the effects it causes
PollDeliverOf(c) ==
        LET e == c.rest[1]
            shownCount == c.shown[e]
            grew == c.n > shownCount
            resolved == c.status = "resolved"
        IN  /\ c.got
            /\ messages' = IF grew
                           THEN messages \o NewOperatorMessages(e, shownCount, c.n)
                           ELSE messages
            /\ Len(messages') <= MaxMsgs
            /\ shownMessageCounts' = IF grew
                                     THEN [shownMessageCounts EXCEPT ![e] = c.n]
                                     ELSE shownMessageCounts
            /\ pendingEscalations' = IF resolved
                                     THEN Filter(pendingEscalations, e)
                                     ELSE pendingEscalations
            /\ showCSAT' = IF resolved /\ e \notin c.csat THEN e ELSE showCSAT
            /\ cycles' = ((cycles (-) SetToBag({c})) (+) NextIteration(c)) (+)
                         (IF grew \/ resolved
                          THEN PollingEffect(pendingEscalations', shownMessageCounts',
                                             Range(csatSubmitted))
                          ELSE EmptyBag)
            /\ BagCardinality(cycles') <= MaxCycles
            /\ UNCHANGED <<now, csatRating, csatSubmitted, language, isTyping, sessionId, sends,
                           timers, csats, backend, csatCalls, acked, dismissed,
                   page, operatorPage>>
            /\ SaveEffects(storage.sessionId)

PollDeliver == \E c \in BagToSet(cycles) : PollDeliverOf(c)

(* ----------------------------- Survey Gate ---------------------------- *)
\* a star of the rating form, rendered while showCSAT is set
SetCSATRating ==
    \E star \in Stars :
        /\ showCSAT # NULL
        /\ csatRating # star
        /\ csatRating' = star
        /\ UNCHANGED <<now, messages, pendingEscalations, showCSAT, csatSubmitted,
                       shownMessageCounts, language, isTyping, sessionId, storage, cycles, sends,
                       timers, csats, backend, csatCalls, acked, dismissed,
                   page, operatorPage>>

\* the skip button
SkipCSAT ==
    /\ showCSAT # NULL
    /\ showCSAT' = NULL
    /\ csatRating' = 0
    /\ dismissed' = dismissed \cup {showCSAT}
    /\ UNCHANGED <<now, messages, pendingEscalations, csatSubmitted,
                   shownMessageCounts, language, isTyping, sessionId, storage, cycles, sends,
                   timers, csats, backend, csatCalls, acked, page, operatorPage>>

\* the guard of handleSubmitCSAT; the button is disabled only while csatRating is 0
CanSubmitCSAT == showCSAT # NULL /\ csatRating # 0

\* mutant: the id joins csatSubmitted when the request leaves, before the
\* backend has acknowledged it
HandleSubmitCSAT_Optimistic ==
    /\ CanSubmitCSAT
    /\ csatCalls[showCSAT] < MaxCalls
    /\ Len(csatSubmitted) + BagCardinality(csats) < MaxCalls
    /\ csats' = csats (+) SetToBag({[id |-> showCSAT, rating |-> csatRating]})
    /\ csatCalls' = [csatCalls EXCEPT ![showCSAT] = @ + 1]
    /\ csatSubmitted' = Append(csatSubmitted, showCSAT)
    /\ UNCHANGED <<now, messages, pendingEscalations, showCSAT, csatRating,
                   shownMessageCounts, language, isTyping, sessionId,
                   cycles, sends, timers, backend, acked, dismissed,
                   page, operatorPage>>
    /\ SaveEffects(storage.sessionId)

\* handleSubmitCSAT up to its await: submitCSAT(showCSAT, csatRating) is called
HandleSubmitCSAT ==
    /\ CanSubmitCSAT
    /\ csatCalls[showCSAT] < MaxCalls
    /\ Len(csatSubmitted) + BagCardinality(csats) < MaxCalls
    /\ csats' = csats (+) SetToBag({[id |-> showCSAT, rating |-> csatRating]})
    /\ csatCalls' = [csatCalls EXCEPT ![showCSAT] = @ + 1]
    /\ UNCHANGED <<now, messages, pendingEscalations, showCSAT, csatRating,
                   csatSubmitted, shownMessageCounts, language, isTyping, sessionId, storage,
                   cycles, sends, timers, backend, acked, dismissed,
                   page, operatorPage>>

\* submitCSAT resolved: thank-you message, the id joins csatSubmitted, the form
\* closes; csatSubmitted is a dependency of the polling effect, which re-runs
CSATAck ==
    \E s \in BagToSet(csats) :
        /\ Len(messages) < MaxMsgs
        /\ csats' = csats (-) SetToBag({s})
        /\ messages' = Append(messages, ThanksMessage(s.id, s.rating))
        /\ csatSubmitted' = Append(csatSubmitted, s.id)
        /\ showCSAT' = NULL
        /\ csatRating' = 0
        /\ acked' = acked \cup {s.id}
        /\ dismissed' = dismissed \cup {s.id}
        /\ cycles' = cycles (+) PollingEffect(pendingEscalations, shownMessageCounts,
                                              Range(csatSubmitted'))
        /\ BagCardinality(cycles') <= MaxCycles
        /\ UNCHANGED <<now, pendingEscalations, shownMessageCounts, language, isTyping,
                       sessionId, sends, timers, backend, csatCalls, page, operatorPage>>
        /\ SaveEffects(storage.sessionId)

\* submitCSAT rejected: the catch block only logs
CSATFail ==
    \E s \in BagToSet(csats) :
        /\ csats' = csats (-) SetToBag({s})
        /\ UNCHANGED <<now, messages, pendingEscalations, showCSAT, csatRating,
                       csatSubmitted, shownMessageCounts, language, isTyping, sessionId, storage,
                       cycles, sends, timers, backend, csatCalls, acked, dismissed,
                   page, operatorPage>>

(* ------------------------- session and page --------------------------- *)
\* the language toggle
SetLanguage ==
    \E l \in Languages :
        /\ l # language
        /\ language' = l
        /\ UNCHANGED <<now, messages, pendingEscalations, showCSAT, csatRating,
                       csatSubmitted, shownMessageCounts, isTyping, sessionId, cycles, sends,
                       timers, csats, backend, csatCalls, acked, dismissed,
                   page, operatorPage>>
        /\ SaveEffects(storage.sessionId)

\* mutant: the reset leaves an open survey prompt open
ResetSession_KeepsPrompt ==
    \E r \in RandomSuffixes :
        /\ Len(messages) > 0
        /\ messages' = <<>>
        /\ pendingEscalations' = <<>>
        /\ csatCalls' = ZeroCounts
        /\ dismissed' = {}
        /\ UNCHANGED <<now, showCSAT, csatRating, csatSubmitted, shownMessageCounts,
                       language, isTyping, sessionId, cycles, sends, timers, csats,
                       backend, acked, page, operatorPage>>
        /\ SaveEffects(NewSessionId(now, r))

\* the "new chat" button, rendered while the timeline is not empty, confirmed
ResetSession ==
    \E r \in RandomSuffixes :
        /\ Len(messages) > 0
        /\ messages' = <<>>
        /\ pendingEscalations' = <<>>
        /\ showCSAT' = NULL
        /\ csatRating' = 0
        /\ csatCalls' = ZeroCounts
        /\ dismissed' = {}
        /\ UNCHANGED <<now, csatSubmitted, shownMessageCounts, language, isTyping, sessionId,
                       cycles, sends, timers, csats, backend, acked, page, operatorPage>>
        /\ SaveEffects(NewSessionId(now, r))

\* mutant: an identifier is generated on every call
getSessionId_AlwaysNew(r) == NewSessionId(now, r)

\* getSessionId: the stored identifier; when none is stored, one is generated
\* from Date.now() and Math.random() (r)
getSessionId(r) ==
    IF storage.sessionId = Missing THEN NewSessionId(now, r) ELSE storage.sessionId

\* the page is loaded: requests and timers of an earlier page are gone, the
\* state is initialised from localStorage (getSessionId writes the identifier it
\* generates), the effects of the first render run
Mount ==
    /\ messages' = loadMessages(storage.messages)
    /\ pendingEscalations' = loadEscalations(storage.escalations)
    /\ csatSubmitted' = loadCSATSubmitted(storage.csatSubmitted)
    /\ language' = loadLanguage(storage.language)
    /\ isTyping' = FALSE
    /\ \E r \in RandomSuffixes : sessionId' = getSessionId(r)
    /\ showCSAT' = NULL
    /\ csatRating' = 0
    /\ shownMessageCounts' = ZeroCounts
    /\ cycles' = PollingEffect(pendingEscalations', shownMessageCounts',
                               Range(csatSubmitted'))
    /\ sends' = EmptyBag
    /\ timers' = EmptyBag
    /\ csats' = EmptyBag
    /\ page' = "rendered"
    /\ SaveEffects(sessionId')

Reload ==
    /\ Mount
    /\ UNCHANGED <<now, backend, csatCalls, acked, dismissed, operatorPage>>

\* The page is loaded while localStorage is unavailable.  When reading throws
\* (access denied), loadMessages, loadEscalations and loadCSATSubmitted catch
\* it and return [], but loadLanguage and getSessionId call
\* localStorage.getItem outside any try: the useState initialiser throws and the
\* first render fails.  When only writing throws (quota, private mode), the
\* setItem of getSessionId or of the persistence effects throws, outside any
\* try as well.  Nothing catches the error: the widget is not rendered and
\* holds no state, no session identifier either.  The stored values stay.
LoadStorageUnavailable ==
    /\ page' = "crashed"
    /\ sessionId' = NULL
    /\ messages' = <<>>
    /\ pendingEscalations' = <<>>
    /\ csatSubmitted' = <<>>
    /\ showCSAT' = NULL
    /\ csatRating' = 0
    /\ shownMessageCounts' = ZeroCounts
    /\ isTyping' = FALSE
    /\ cycles' = EmptyBag
    /\ sends' = EmptyBag
    /\ timers' = EmptyBag
    /\ csats' = EmptyBag
    /\ UNCHANGED <<now, language, storage, backend, csatCalls, acked, dismissed,
                   operatorPage>>

\* the widget is on the page: its handlers, effects and callbacks can run
Rendered == page = "rendered"

\* handleQuickAction; the quick actions are rendered while the timeline is empty
HandleQuickAction ==
    \E action \in {"create_ticket", "search_kb", "check_status", "urgent"} :
        /\ Len(messages) = 0
        /\ IF action \in {"create_ticket", "urgent"}
           THEN \* window.location.href = '/submit...': the page is left
                /\ Mount
                /\ UNCHANGED <<now, backend, csatCalls, acked, dismissed, operatorPage>>
           ELSE /\ messages' =
                      IF action = "search_kb"
                      THEN <<UserMessage("search_kb"),
                             BotMessage("search_kb", language, NoTool)>>
                      ELSE <<BotMessage("check_status", language, NoTool)>>
                /\ UNCHANGED <<now, pendingEscalations, showCSAT, csatRating,
                               csatSubmitted, shownMessageCounts, language, isTyping, sessionId,
                               cycles, sends, timers, csats, backend, csatCalls, acked, dismissed,
                   page, operatorPage>>
                /\ SaveEffects(storage.sessionId)

(* ------------------- operator page: the chat of a ticket ---------------- *)
\* idx * 1000: the distance between the timestamps given to history entries
HistoryStep == 1000

\* the distances from created_at at which client and operator messages arrive
RealOffsets == {0, 500, 1500, 2500}

\* the timestamps of a list of messages the backend stamped on arrival
Stamps(n) ==
    {s \in [1..n -> {StartTime + d : d \in RealOffsets}] :
        \A i, j \in 1..n : i < j => s[i] <= s[j]}

\* the escalations the operator can select: a conversation history without
\* timestamps, client messages and operator messages stamped at or after created_at
Tickets ==
    {[created_at |-> StartTime, history |-> h, client |-> c, operator |-> o] :
        h \in UNION {[1..n -> {"entry"}] : n \in 0..MaxHistory},
        c \in UNION {Stamps(n) : n \in 0..MaxReal},
        o \in UNION {Stamps(n) : n \in 0..MaxReal}}

Entry(type, idx, ts) == [type |-> type, idx |-> idx, timestamp |-> ts]

\* the unified list before sorting: history, then client, then operator messages
AllMessages(t) ==
    [k \in DOMAIN t.history |->
        Entry("history", k - 1, t.created_at + (k - 1) * HistoryStep)]
    \o [k \in DOMAIN t.client |-> Entry("client", k - 1, t.client[k])]
    \o [k \in DOMAIN t.operator |-> Entry("operator", k - 1, t.operator[k])]

\* mutant: an entry whose timestamp is already in the list is dropped
InsertSorted_Unique(sorted, x) ==
    IF \E k \in DOMAIN sorted : sorted[k].timestamp = x.timestamp
    THEN sorted
    ELSE LET n == Cardinality({k \in DOMAIN sorted : sorted[k].timestamp < x.timestamp})
         IN  SubSeq(sorted, 1, n) \o <<x>> \o SubSeq(sorted, n + 1, Len(sorted))

\* x is placed behind the entries that do not compare greater than it
InsertSorted(sorted, x) ==
    LET before == {k \in DOMAIN sorted : sorted[k].timestamp <= x.timestamp}
        n == Cardinality(before)
    IN  SubSeq(sorted, 1, n) \o <<x>> \o SubSeq(sorted, n + 1, Len(sorted))

\* Array.prototype.sort by timestamp: stable
RECURSIVE SortByTimestamp(_)
SortByTimestamp(s) ==
    IF s = <<>> THEN <<>>
    ELSE InsertSorted(SortByTimestamp(SubSeq(s, 1, Len(s) - 1)), s[Len(s)])

MergedTranscript(t) == SortByTimestamp(AllMessages(t))

\* the operator page with an escalation selected, its chat not yet rendered
InitTranscript ==
    /\ now = StartTime
    /\ messages = <<>>
    /\ pendingEscalations = <<>>
    /\ showCSAT = NULL
    /\ csatRating = 0
    /\ csatSubmitted = <<>>
    /\ shownMessageCounts = ZeroCounts
    /\ language = "ru"
    /\ isTyping = FALSE
    /\ sessionId = NewSessionId(StartTime, "a")
    /\ storage = [messages |-> <<>>, escalations |-> <<>>,
                  csatSubmitted |-> <<>>, language |-> "ru",
                  sessionId |-> NewSessionId(StartTime, "a")]
    /\ cycles = EmptyBag
    /\ sends = EmptyBag
    /\ timers = EmptyBag
    /\ csats = EmptyBag
    /\ backend = [e \in AllIds |-> [status |-> "none", ops |-> <<>>]]
    /\ csatCalls = ZeroCounts
    /\ acked = {}
    /\ dismissed = {}
    /\ page = "rendered"
    /\ selectedTicket \in Tickets
    /\ transcript = <<>>

\* the chat of the selected escalation is rendered
RenderTranscript ==
    /\ transcript # MergedTranscript(selectedTicket)
    /\ transcript' = MergedTranscript(selectedTicket)
    /\ UNCHANGED <<now, messages, pendingEscalations, showCSAT, csatRating,
                   csatSubmitted, shownMessageCounts, language, isTyping, sessionId,
                   storage, cycles, sends, timers, csats, backend, csatCalls, acked,
                   dismissed, page, selectedTicket>>

(* --------------------------- specifications --------------------------- *)
\* every step of the widget, the backend and the operator
WidgetStep ==
    \/ Tick
    \/ HandleSend
    \/ HandleKeyPress
    \/ SendToEscalationOk
    \/ SendFail
    \/ AssistantReply
    \/ TimerFire
    \/ OperatorReply
    \/ OperatorSetStatus
    \/ IntervalTick
    \/ PollServe
    \/ PollFail
    \/ PollDeliver
    \/ SetCSATRating
    \/ SkipCSAT
    \/ HandleSubmitCSAT
    \/ CSATAck
    \/ CSATFail
    \/ SetLanguage
    \/ ResetSession
    \/ HandleQuickAction

Next ==
    \/ Rendered /\ WidgetStep
    \/ Reload
    \/ LoadStorageUnavailable
    \/ RenderTranscript

Spec == Init /\ [][Next]_vars

\* The specifications below are parts of Spec: each keeps the steps of one
\* component and of what feeds it, from the same initial state.

\* the assistant's replies in a conversation that is escalated at most once
OneEscalation ==
    {t \in ToolResults : t = NoTool \/ t.id = "ESC-1"}

\* the poller: an escalation is created, the operator answers, cycles overlap
NextPoll ==
    \/ HandleSend
    \/ AssistantReply
    \/ TimerFire
    \/ ObservedOperator
    \/ IntervalTick
    \/ PollServe
    \/ PollFail
    \/ PollDeliver

SpecPoll == Init /\ [][NextPoll]_vars

\* persistence: every kind of change to the persisted state, and reloads
NextReload ==
    \/ HandleSend
    \/ AssistantReplies(OneEscalation)
    \/ TimerFire
    \/ ObservedOperator
    \/ PollServe
    \/ PollDeliver
    \/ SetCSATRating
    \/ HandleSubmitCSAT
    \/ CSATAck
    \/ SetLanguage
    \/ Reload

SpecReload == Init /\ [][NextReload]_vars

\* the timeline under a running clock
NextClock ==
    \/ Tick
    \/ HandleSend
    \/ AssistantReplies(OneEscalation)
    \/ TimerFire
    \/ ObservedOperator
    \/ PollServe
    \/ PollDeliver

SpecClock == Init /\ [][NextClock]_vars

\* the survey: an escalation is resolved, the visitor rates or skips
NextSurvey ==
    \/ HandleSend
    \/ AssistantReplies(OneEscalation)
    \/ TimerFire
    \/ ObservedOperator
    \/ IntervalTick
    \/ PollServe
    \/ PollDeliver
    \/ SetCSATRating
    \/ SkipCSAT
    \/ HandleSubmitCSAT
    \/ CSATAck
    \/ CSATFail

SpecSurvey == Init /\ [][NextSurvey]_vars

\* The widget after two messages were sent with Enter one right after the
\* other (handleKeyPress does not look at isTyping): both are in the timeline
\* and both chatApi.send requests are awaited.
InitTwoSends ==
    /\ now = StartTime
    /\ messages = <<Message(TimeId(StartTime), <<"user", "", 0>>, FALSE, FALSE,
                            StartTime, NoTool),
                    Message(TimeId(StartTime), <<"user", "", 0>>, FALSE, FALSE,
                            StartTime, NoTool)>>
    /\ pendingEscalations = <<>>
    /\ showCSAT = NULL
    /\ csatRating = 0
    /\ csatSubmitted = <<>>
    /\ shownMessageCounts = ZeroCounts
    /\ language = "ru"
    /\ isTyping = TRUE
    /\ sessionId = NewSessionId(StartTime, "a")
    /\ storage = [messages |-> StringifyMessages(messages), escalations |-> <<>>,
                  csatSubmitted |-> <<>>, language |-> "ru",
                  sessionId |-> NewSessionId(StartTime, "a")]
    /\ cycles = EmptyBag
    /\ sends = SetToBag({SendRequest(NULL)}) (+) SetToBag({SendRequest(NULL)})
    /\ timers = EmptyBag
    /\ csats = EmptyBag
    /\ backend = [e \in AllIds |-> [status |-> "none", ops |-> <<>>]]
    /\ csatCalls = ZeroCounts
    /\ acked = {}
    /\ dismissed = {}
    /\ page = "rendered"
    /\ selectedTicket = NoTicket
    /\ transcript = <<>>

\* the outcomes of the two sends, in either order, and the polling they start
NextTwoSends ==
    \/ AssistantReply
    \/ SendFail
    \/ TimerFire
    \/ ObservedOperator
    \/ PollServe
    \/ PollDeliver

SpecTwoSends == InitTwoSends /\ [][NextTwoSends]_vars

\* the router: sends by button and by Enter, every outcome of a send
NextDispatch ==
    \/ HandleSend
    \/ HandleKeyPress
    \/ SendToEscalationOk
    \/ SendFail
    \/ AssistantReply
    \/ TimerFire
    \/ ObservedOperator
    \/ PollServe
    \/ PollDeliver

SpecDispatch == Init /\ [][NextDispatch]_vars

\* the session: conversations, surveys and resets
NextReset ==
    \/ HandleSend
    \/ AssistantReplies(OneEscalation)
    \/ TimerFire
    \/ ObservedOperator
    \/ PollServe
    \/ PollDeliver
    \/ SetCSATRating
    \/ HandleSubmitCSAT
    \/ CSATAck
    \/ ResetSession

SpecReset == Init /\ [][NextReset]_vars

\* sends and their outcomes while the visitor may switch the language
NextFallback ==
    \/ HandleSend
    \/ SendToEscalationOk
    \/ SendFail
    \/ AssistantReplies(OneEscalation)
    \/ TimerFire
    \/ SetLanguage

SpecFallback == Init /\ [][NextFallback]_vars

\* messages to a tracked escalation, in a conversation resumed after a reload
NextAck ==
    \/ HandleSend
    \/ AssistantReplies(OneEscalation)
    \/ SendToEscalationOk
    \/ SendFail
    \/ TimerFire
    \/ ObservedOperator
    \/ PollServe
    \/ PollDeliver
    \/ Reload

SpecAck == Init /\ [][NextAck]_vars

\* a conversation opened with a quick action or a message, under a running clock
NextQuick ==
    \/ Tick
    \/ HandleQuickAction
    \/ HandleSend
    \/ AssistantReplies(OneEscalation)
    \/ TimerFire
    \/ SetLanguage

SpecQuick == Init /\ [][NextQuick]_vars

\* the operator page renders the chat of an escalation
SpecTranscript == InitTranscript /\ [][RenderTranscript]_vars

\* page loads with and without localStorage, and what the widget does between them
NextEphemeral ==
    \/ Rendered /\ HandleSend
    \/ Rendered /\ AssistantReplies(OneEscalation)
    \/ Rendered /\ TimerFire
    \/ Rendered /\ PollServe
    \/ Rendered /\ PollDeliver
    \/ Rendered /\ SetLanguage
    \/ ObservedOperator
    \/ Reload
    \/ LoadStorageUnavailable

SpecEphemeral == Init /\ [][NextEphemeral]_vars

\* the tracked set: every step that could add to it or remove from it
NextTrack ==
    \/ HandleSend
    \/ AssistantReplies(OneEscalation)
    \/ SendToEscalationOk
    \/ SendFail
    \/ TimerFire
    \/ ObservedOperator
    \/ PollServe
    \/ PollFail
    \/ PollDeliver
    \/ SkipCSAT
    \/ ResetSession

SpecTrack == Init /\ [][NextTrack]_vars

\* the poller with two escalations tracked: the cycles the effect starts
NextTwoTracked ==
    \/ ObservedOperator
    \/ PollServe
    \/ PollFail
    \/ PollDeliver

SpecTwoTracked == InitTwoTracked /\ [][NextTwoTracked]_vars

\* the same with the cycles the interval starts on top of them
NextOverlap ==
    \/ NextTwoTracked
    \/ IntervalTick

SpecOverlap == InitTwoTracked /\ [][NextOverlap]_vars

\* the session identifier from the first visit on: loads, conversations, resets
NextSession ==
    \/ Tick
    \/ Reload
    \/ Rendered /\ HandleSend
    \/ Rendered /\ AssistantReplies(OneEscalation)
    \/ Rendered /\ TimerFire
    \/ Rendered /\ SetLanguage
    \/ Rendered /\ ResetSession

SpecSession == InitFirstVisit /\ [][NextSession]_vars

\* the timeline: every step that changes it or could, and resets
NextTimeline ==
    \/ HandleQuickAction
    \/ HandleSend
    \/ AssistantReplies(OneEscalation)
    \/ TimerFire
    \/ ObservedOperator
    \/ PollServe
    \/ PollDeliver
    \/ SetCSATRating
    \/ HandleSubmitCSAT
    \/ CSATAck
    \/ SetLanguage
    \/ ResetSession

SpecTimeline == Init /\ [][NextTimeline]_vars

\* the poller while the operator writes several messages, cycles overlap and
\* the visitor may start a new chat
NextOrder ==
    \/ HandleSend
    \/ AssistantReplies(OneEscalation)
    \/ TimerFire
    \/ ObservedOperatorUpTo(MaxBacklog)
    \/ IntervalTick
    \/ PollServe
    \/ PollDeliver
    \/ ResetSession

SpecOrder == Init /\ [][NextOrder]_vars

\* The page as it is loaded when localStorage holds a conversation with one
\* tracked escalation: the assistant answered the visitor's message with an
\* escalation and the page was loaded again before the reply was shown.
InitTracked ==
    /\ now = StartTime
    /\ storage = [messages |-> StringifyMessages(
                                  <<Message(TimeId(StartTime), <<"user", "", 0>>, FALSE,
                                            FALSE, StartTime, NoTool)>>),
                  escalations |-> <<"ESC-1">>,
                  csatSubmitted |-> <<>>,
                  language |-> "ru",
                  sessionId |-> NewSessionId(StartTime, "a")]
    /\ messages = loadMessages(storage.messages)
    /\ pendingEscalations = loadEscalations(storage.escalations)
    /\ showCSAT = NULL
    /\ csatRating = 0
    /\ csatSubmitted = loadCSATSubmitted(storage.csatSubmitted)
    /\ shownMessageCounts = ZeroCounts
    /\ language = loadLanguage(storage.language)
    /\ isTyping = FALSE
    /\ sessionId = storage.sessionId
    /\ cycles = PollingEffect(pendingEscalations, shownMessageCounts,
                              Range(csatSubmitted))
    /\ sends = EmptyBag
    /\ timers = EmptyBag
    /\ csats = EmptyBag
    /\ backend = [e \in AllIds |->
                    [status |-> IF e = "ESC-1" THEN "pending" ELSE "none",
                     ops |-> <<>>]]
    /\ csatCalls = ZeroCounts
    /\ acked = {}
    /\ dismissed = {}
    /\ page = "rendered"
    /\ selectedTicket = NoTicket
    /\ transcript = <<>>

\* the poller with no reset and no reload, every request answered
NextLive ==
    \/ ObservedOperator
    \/ IntervalTick
    \/ PollServe
    \/ PollDeliver

\* the checkForResponses invocations that can be awaiting for ESC-1
CycleRecords ==
    {[rest |-> <<"ESC-1">>,
      shown |-> [e \in AllIds |-> IF e = "ESC-1" THEN s ELSE 0],
      csat |-> {}, got |-> g, n |-> n, status |-> st] :
        s \in 0..MaxOps, g \in BOOLEAN, n \in 0..MaxOps, st \in Statuses}

\* The scheduling the code runs under: the interval keeps firing while it is
\* set; every request that is awaited is answered; the continuation of every
\* answered request is run by the event loop.
LiveFairness ==
    /\ WF_vars(IntervalTick)
    /\ \A c \in CycleRecords :
          /\ WF_vars(BagIn(c, cycles) /\ PollServeOf(c))
          /\ WF_vars(BagIn(c, cycles) /\ PollDeliverOf(c))

SpecLive == InitTracked /\ [][NextLive]_vars /\ LiveFairness

(* ------------------------------ claims -------------------------------- *)
\* the timeline entries that are operator messages of escalation e
OperatorEntries(e) ==
    {k \in DOMAIN messages : messages[k].isOperator /\ messages[k].content[2] = e}

\* the timeline entries for operator message idx of escalation e
EntriesFor(e, idx) ==
    {k \in OperatorEntries(e) : messages[k].content[3] = idx}

\* C1: without reloads and resets, whatever the interleaving of poll cycles, the
\* timeline never holds more entries for an escalation than the backend's
\* operator-message list of that escalation has messages.
C1_IdempotentPolling ==
    \A e \in EscIds : Cardinality(OperatorEntries(e)) <= Len(backend[e].ops)

\* C2: across poll cycles and page reloads, every backend operator message
\* (escalation, position) has at most one entry in the timeline.
C2_AtMostOncePerPosition ==
    \A e \in EscIds : \A idx \in 0..(MaxOps - 1) :
        Cardinality(EntriesFor(e, idx)) <= 1

\* C3: between session resets submitCSAT is called at most once per escalation.
C3_SubmitAtMostOnce ==
    \A e \in AllIds : csatCalls[e] <= 1

\* the request a visitor message must cause, given the tracked list it is sent under
RoutedRequest ==
    [to |-> IF pendingEscalations = <<>> THEN "assistant" ELSE Head(pendingEscalations),
     lang |-> language]

\* a step in which the visitor's message joins the timeline
VisitorSends ==
    /\ Len(messages') = Len(messages) + 1
    /\ ~messages'[Len(messages')].isBot

C5_TimelineOrdered ==
    \A i, j \in DOMAIN messages :
        i < j => messages[i].timestamp <= messages[j].timestamp

\* C6: right after a session reset the timeline is empty, nothing is tracked and
\* no survey prompt is open, in memory and in localStorage.
C6_ResetClears ==
    [][ResetSession =>
         /\ messages' = <<>>
         /\ pendingEscalations' = <<>>
         /\ showCSAT' = NULL
         /\ loadMessages(storage'.messages) = <<>>
         /\ loadEscalations(storage'.escalations) = <<>>]_vars

\* a reset has happened after an escalation was resolved and its survey opened:
\* the persisted session identifier is a new one and the timeline is empty
C6_Witness ==
    /\ storage.sessionId # sessionId
    /\ messages = <<>>
    /\ pendingEscalations = <<>>
    /\ \E e \in EscIds : backend[e].status = "resolved" /\ csatCalls[e] = 0
                         /\ e \in acked

\* C7: a session reset empties the CSAT-submitted set, in memory and in
\* localStorage.
C7_ResetClearsCsatSubmitted ==
    [][ResetSession =>
         /\ csatSubmitted' = <<>>
         /\ loadCSATSubmitted(storage'.csatSubmitted) = <<>>]_vars

\* C8: after a session reset the identifier the widget holds equals the persisted
\* one and differs from the identifier held before.
C8_ResetFreshSessionId ==
    [][ResetSession =>
         /\ sessionId' = storage'.sessionId
         /\ sessionId' # sessionId]_vars

\* C9: whenever the page is loaded again, the timeline (order and timestamps),
\* the tracked list, the CSAT-submitted list and the language it starts with
\* are the ones rendered before.
C9_ReloadRoundTrip ==
    [][Reload =>
         /\ messages' = messages
         /\ pendingEscalations' = pendingEscalations
         /\ csatSubmitted' = csatSubmitted
         /\ language' = language]_vars

\* after a reload (no count is kept although an operator message is shown) the
\* timeline holds an operator message and a thank-you, the language is kz
C9_Witness ==
    /\ shownMessageCounts = ZeroCounts
    /\ \E k \in DOMAIN messages : messages[k].isOperator /\ messages[k].timestamp = now
    /\ csatSubmitted # <<>>
    /\ language = "kz"

\* C10: an id is in csatSubmitted only if its submitCSAT was acknowledged; a
\* failed submitCSAT changes neither csatSubmitted nor the timeline nor the
\* prompt; an acknowledged one appends the thank-you message.
C10_SubmittedOnlyAfterAck ==
    /\ [](Range(csatSubmitted) \subseteq acked)
    /\ [][/\ CSATFail => UNCHANGED <<csatSubmitted, messages, showCSAT>>
          /\ CSATAck =>
               /\ Len(messages') = Len(messages) + 1
               /\ messages'[Len(messages')].content[1] = "thanks"
               /\ SubSeq(messages', 1, Len(messages)) = messages]_vars

\* a rating was acknowledged after an earlier submission had failed
C10_Witness ==
    \E e \in EscIds :
        /\ e \in Range(csatSubmitted)
        /\ csatCalls[e] = 2
        /\ csats = EmptyBag
        /\ \E k \in DOMAIN messages : messages[k].content[1] = "thanks"

\* C11: once the survey prompt of an escalation has been skipped or rated, no
\* later step opens the prompt for that escalation again before a reset.
C11_PromptAtMostOnce ==
    [][\A e \in dismissed : showCSAT # e => showCSAT' # e]_vars

\* a poll response reporting resolved for escalation e is handled
Resolves(e) ==
    \E c \in BagToSet(cycles) :
        c.rest[1] = e /\ c.status = "resolved" /\ PollDeliverOf(c)

\* C12: handling a poll response that reports resolved removes the escalation
\* from the tracked list, and an identifier leaves the tracked list only in such
\* a step or in a session reset.
C12_UntrackedOnlyWhenResolved ==
    [][\A e \in AllIds :
         /\ Resolves(e) => e \notin Range(pendingEscalations')
         /\ (e \in Range(pendingEscalations) /\ e \notin Range(pendingEscalations'))
                => (Resolves(e) \/ ResetSession)]_vars

\* ESC-1 stayed tracked through a response that carried an operator message and
\* left the tracked list with the response that reported it resolved
C12_Witness ==
    /\ pendingEscalations = <<>>
    /\ showCSAT = "ESC-1"
    /\ shownMessageCounts["ESC-1"] = 1
    /\ backend["ESC-1"].status = "resolved"

\* the getEscalation requests a step issues
NewRequests ==
    {c \in BagToSet(cycles') : ~c.got /\ CopiesIn(c, cycles') > CopiesIn(c, cycles)}

\* C13: a failed poll request changes nothing of the local state (the timeline,
\* the tracked list, the shown counts, the survey prompt, the CSAT-submitted list
\* and what is persisted stay as they were, no message is scheduled), and the
\* cycle goes on to poll the tracked escalations that follow.
C13_PollFailureIsSkipped ==
    [][\A c \in BagToSet(cycles) :
         PollFailOf(c) =>
            /\ UNCHANGED <<messages, pendingEscalations, shownMessageCounts, showCSAT,
                           csatRating, csatSubmitted, storage, timers>>
            /\ Len(c.rest) > 1 =>
                  \E d \in NewRequests : d.rest = Tail(c.rest)]_vars

\* the request for ESC-1 failed while an operator message was waiting there (its
\* count is still 0, no request for it is left), and the cycle went on to ESC-2
C13_Witness ==
    /\ pendingEscalations = <<"ESC-1", "ESC-2">>
    /\ Len(backend["ESC-1"].ops) = 1
    /\ shownMessageCounts["ESC-1"] = 0
    /\ cycles # EmptyBag
    /\ \A c \in BagToSet(cycles) : c.rest = <<"ESC-2">>

\* C14: no getEscalation request is issued while nothing is tracked, and a step
\* that starts tracking an identifier issues a request of a cycle that includes it.
C14_PollOnlyWhileTracked ==
    [][/\ (pendingEscalations = <<>> /\ pendingEscalations' = <<>>) => NewRequests = {}
       /\ \A e \in Range(pendingEscalations') \ Range(pendingEscalations) :
             \E c \in NewRequests : e \in Range(c.rest)]_vars

\* C15: in every reachable state each tracked identifier has the assistant reply
\* whose tool call created it in the timeline.
C15_TrackedWithReply ==
    \A e \in Range(pendingEscalations) :
        \E k \in DOMAIN messages : messages[k].toolCall.id = e

\* the setTimeout callback of the catch block of handleSend runs
FallbackShown ==
    /\ TimerFire
    /\ \E t \in BagToSet(timers) :
          t.kind = "error" /\ CopiesIn(t, timers') < CopiesIn(t, timers)

\* C16: a failed send leaves the timeline (the visitor's message in it) and the
\* tracked list as they are and schedules one fallback; when the fallback is
\* shown, exactly one assistant-origin message in the language selected at that
\* moment is appended after the visitor's message, the tracked list unchanged.
C16_FallbackOnFailure ==
    [][/\ SendFail =>
            /\ messages' = messages
            /\ pendingEscalations' = pendingEscalations
            /\ BagCardinality(timers') = BagCardinality(timers) + 1
       /\ FallbackShown =>
            /\ Len(messages') = Len(messages) + 1
            /\ SubSeq(messages', 1, Len(messages)) = messages
            /\ \E k \in DOMAIN messages : ~messages[k].isBot
            /\ messages'[Len(messages')].isBot
            /\ ~messages'[Len(messages')].isOperator
            /\ messages'[Len(messages')].content = <<"error", language, 0>>
            /\ pendingEscalations' = pendingEscalations]_vars

\* the setTimeout callback scheduled after sendToEscalation runs
AckShown ==
    /\ TimerFire
    /\ \E t \in BagToSet(timers) :
          t.kind = "forwarded" /\ CopiesIn(t, timers') < CopiesIn(t, timers)

\* C17: when sendToEscalation succeeds, one acknowledgment is scheduled, no
\* request to the assistant is issued and the timeline and the tracked list stay
\* as they are; when the acknowledgment is shown, exactly one assistant-origin
\* entry is appended after the visitor's message, nothing is sent and the tracked
\* list is unchanged.
C17_AckAfterEscalationSend ==
    [][/\ SendToEscalationOk =>
            /\ messages' = messages
            /\ pendingEscalations' = pendingEscalations
            /\ BagCardinality(sends') = BagCardinality(sends) - 1
            /\ \A r \in BagToSet(sends') : CopiesIn(r, sends') <= CopiesIn(r, sends)
            /\ \E t \in BagToSet(timers') :
                  t.kind = "forwarded" /\ timers' = timers (+) SetToBag({t})
       /\ AckShown =>
            /\ Len(messages') = Len(messages) + 1
            /\ SubSeq(messages', 1, Len(messages)) = messages
            /\ \E k \in DOMAIN messages : ~messages[k].isBot
            /\ messages'[Len(messages')].isBot
            /\ ~messages'[Len(messages')].isOperator
            /\ messages'[Len(messages')].content[1] = "forwarded"
            /\ sends' = sends
            /\ pendingEscalations' = pendingEscalations]_vars

\* the acknowledgment of a message forwarded to ESC-1 is the last entry of the
\* timeline, right after the visitor's message, and ESC-1 is still tracked
C17_Witness ==
    /\ Len(messages) >= 2
    /\ messages[Len(messages)].content[1] = "forwarded"
    /\ ~messages[Len(messages) - 1].isBot
    /\ pendingEscalations = <<"ESC-1">>
    /\ sends = EmptyBag

\* C18: the messages of the timeline have pairwise distinct ids.
C18_DistinctIds ==
    \A i, j \in DOMAIN messages : i # j => messages[i].id # messages[j].id

\* C19: in the rendered chat of an escalation every conversation-history entry
\* comes before every client message and every operator message.
C19_HistoryFirst ==
    \A i, j \in DOMAIN transcript :
        (transcript[i].type = "history" /\ transcript[j].type # "history") => i < j

\* C20: a page load with localStorage unavailable still renders the widget, and
\* the widget holds a session identifier.
C20_EphemeralSession ==
    [][LoadStorageUnavailable => (page' = "rendered" /\ sessionId' # NULL)]_vars

\* C21: the session identifier is generated once and reused.  A page load returns
\* the identifier it leaves in storage; when one is stored, it returns that one
\* and stores nothing else; and no step but a reset replaces a stored identifier,
\* so that all loads between two resets return the same identifier and one is
\* generated only when none is stored.
C21_SessionIdReused ==
    [][/\ Reload =>
            /\ sessionId' = storage'.sessionId
            /\ sessionId' # Missing
            /\ storage.sessionId # Missing => sessionId' = storage.sessionId
       /\ (storage.sessionId # Missing /\ ~ResetSession) =>
            storage'.sessionId = storage.sessionId]_vars

\* the page has been loaded again after the first load and a message: the
\* identifier generated at the first load is the one held and stored
C21_Witness ==
    /\ page = "rendered"
    /\ Len(messages) = 1
    /\ sends = EmptyBag /\ timers = EmptyBag
    /\ now > StartTime
    /\ sessionId = storage.sessionId
    /\ sessionId.t = StartTime

\* C22: the poll cycles in flight are bounded.  When the interval fires while a
\* cycle still awaits the backend, either no cycle is added (the tick is
\* skipped) or the cycles in flight stay below a cap of the widget, a cap that
\* is reached before the bound of the exploration is.
C22_BoundedCycles ==
    [][(IntervalTick /\ cycles # EmptyBag) =>
          \/ BagCardinality(cycles') <= BagCardinality(cycles)
          \/ BagCardinality(cycles') < MaxCycles]_vars

\* a continuation of work begun earlier: a poll response is handled, a send is
\* answered, a delayed append runs, a survey submission is acknowledged
ContinuationStep == PollDeliver \/ AssistantReply \/ TimerFire \/ CSATAck

\* C23: a session reset cancels the poller and everything else in flight.  The
\* timeline is empty while work is in flight only after a reset that the
\* visitor has not followed with a message; in that state a continuation leaves
\* the timeline and the tracked list empty and opens no survey prompt.
C23_ResetCancels ==
    [][(messages = <<>> /\ ContinuationStep) =>
          /\ messages' = <<>>
          /\ pendingEscalations' = <<>>
          /\ showCSAT' = NULL]_vars

IsPrefix(s, t) == Len(s) <= Len(t) /\ SubSeq(t, 1, Len(s)) = s

\* C24: between resets the timeline is append-only.  Every step that is not a
\* reset (a poll, a send and its reply, a survey action, a language change, a
\* quick action) leaves the previous timeline as a prefix of the new one.
C24_AppendOnly ==
    [][~ResetSession => IsPrefix(messages, messages')]_vars

\* a poll and a reply have both appended behind the visitor's message
C24_Witness ==
    /\ Len(messages) = 3
    /\ ~messages[1].isBot
    /\ \E k \in 2..3 : messages[k].isOperator
    /\ \E k \in 2..3 : messages[k].isBot /\ ~messages[k].isOperator

\* the position in the backend's list of the operator message shown at k
PositionOf(k) == messages[k].content[3]

\* C25: the operator messages of an escalation appear in the timeline in the
\* backend's list order.  For two positions i < j that both have entries, no
\* entry for j precedes the first entry for i.
C25_BackendOrder ==
    \A e \in EscIds : \A kj, ki \in OperatorEntries(e) :
        PositionOf(ki) < PositionOf(kj) =>
            \E first \in OperatorEntries(e) :
                first < kj /\ PositionOf(first) = PositionOf(ki)

\* the positions of the rendered chat that show entry idx of one of the three lists
ShownAt(type, idx, ts) ==
    {k \in DOMAIN transcript : transcript[k] = Entry(type, idx, ts)}

\* C26: the chat rendered for an escalation holds every entry of the
\* conversation history (entry k stamped created_at plus k seconds), every
\* client message and every operator message exactly once and nothing else, is
\* sorted by timestamp, and keeps the history entries in their original order.
C26_MergeIsSortedPermutation ==
    transcript # <<>> =>
        LET t == selectedTicket
        IN  /\ Len(transcript) = Len(t.history) + Len(t.client) + Len(t.operator)
            /\ \A k \in DOMAIN t.history :
                  Cardinality(ShownAt("history", k - 1,
                                      t.created_at + (k - 1) * MsPerSecond)) = 1
            /\ \A k \in DOMAIN t.client :
                  Cardinality(ShownAt("client", k - 1, t.client[k])) = 1
            /\ \A k \in DOMAIN t.operator :
                  Cardinality(ShownAt("operator", k - 1, t.operator[k])) = 1
            /\ \A i, j \in DOMAIN transcript :
                  i < j => transcript[i].timestamp <= transcript[j].timestamp
            /\ \A i, j \in DOMAIN transcript :
                  (i < j /\ transcript[i].type = "history"
                         /\ transcript[j].type = "history")
                  => transcript[i].idx < transcript[j].idx

\* a rendered chat in which history, client and operator entries interleave
C26_Witness ==
    /\ Len(selectedTicket.history) = 3
    /\ Len(transcript) = 7
    /\ transcript[2].type = "operator"
    /\ transcript[3].type = "client"
    /\ transcript[4].type = "history"
    /\ transcript[7].type = "client"

\* the survey of the open prompt is rated (its submission is acknowledged)
RatesOpenPrompt ==
    /\ CSATAck
    /\ csatSubmitted' = Append(csatSubmitted, showCSAT)

\* C27: an escalation that a poll observes as resolved and that is not in
\* csatSubmitted gets its survey prompt, and an open prompt stays open until
\* the visitor skips it or rates that escalation (or resets the session): no
\* other step closes it or puts another escalation in its place.
C27_PromptPresentedAndKept ==
    [][/\ \A e \in AllIds :
            (Resolves(e) /\ e \notin Range(csatSubmitted)) => showCSAT' = e
       /\ (showCSAT # NULL /\ showCSAT' # showCSAT) =>
            (SkipCSAT \/ RatesOpenPrompt \/ ResetSession)]_vars

\* chatApi.send resolves with this tool_call
RepliesWith(tool) == AssistantReplies({tool})

HoldsId(tool, name) == tool.name = name /\ tool.id # ""

\* what every assistant reply does to the tracked list
TracksThroughToolCall(tool) ==
    IF HoldsId(tool, "escalate_to_operator") \/ HoldsId(tool, "create_ticket")
    THEN pendingEscalations' = Append(pendingEscalations, tool.id)
    ELSE pendingEscalations' = pendingEscalations

\* C28 as stated: an assistant reply changes the tracked list only through its
\* tool_call result (an escalation id or a ticket number is appended, anything
\* else leaves the list alone), and after an escalate result the escalation
\* the next visitor message is routed to is the one of that result.
C28_TrackingAsStated ==
    [][\A tool \in ToolResults :
          RepliesWith(tool) =>
             /\ TracksThroughToolCall(tool)
             /\ HoldsId(tool, "escalate_to_operator") =>
                    pendingEscalations'[1] = tool.id]_vars

\* C28, amended: the same, but after an escalate result the next visitor
\* message is routed to the first tracked identifier, which is the escalation
\* of that result only when nothing was tracked before it.
C28_ToolCallTracking ==
    [][\A tool \in ToolResults :
          RepliesWith(tool) =>
             /\ TracksThroughToolCall(tool)
             /\ HoldsId(tool, "escalate_to_operator") =>
                    pendingEscalations'[1] =
                        IF pendingEscalations = <<>> THEN tool.id
                        ELSE pendingEscalations[1]]_vars

\* both sends were answered with an escalation: two are tracked, the one
\* created last is not the first
C28_Witness ==
    /\ Len(pendingEscalations) = 2
    /\ pendingEscalations[1] # pendingEscalations[2]
    /\ \E t \in BagToSet(timers) :
          HoldsId(t.tool, "escalate_to_operator") /\ t.tool.id = pendingEscalations[2]

\* C29: the last-seen operator-message count of an escalation never decreases
\* within a page lifetime, whatever the arrival order of the responses of
\* overlapping cycles, and never exceeds the number of operator messages the
\* backend has reported for it.
C29_ShownCountMonotone ==
    [][\A e \in AllIds :
          /\ shownMessageCounts'[e] >= shownMessageCounts[e]
          /\ shownMessageCounts'[e] <= Len(backend'[e].ops)]_vars

\* the bounded timeline has no room left for a response of the backend
TimelineFull == Len(messages) + MaxOps > MaxMsgs

\* operator message p of escalation e is in the backend's list while e is
\* tracked and no response that reports resolved without it is on its way, or
\* it is in a response that reports resolved
ToBeShown(e, p) ==
    \/ /\ e \in Range(pendingEscalations)
       /\ Len(backend[e].ops) > p
       /\ ~\E c \in BagToSet(cycles) :
              c.got /\ c.rest[1] = e /\ c.status = "resolved" /\ c.n <= p
    \/ \E c \in BagToSet(cycles) :
          c.got /\ c.rest[1] = e /\ c.status = "resolved" /\ c.n > p

AllResolved == \A e \in Range(pendingEscalations) : backend[e].status = "resolved"

PollingStopped == pendingEscalations = <<>> /\ cycles = EmptyBag

\* C30: with no reset and no reload, the interval firing and every poll request
\* answered, every operator message that the backend lists for a tracked
\* escalation no later than the poll that observes resolved is eventually in
\* the timeline; and if the backend ends up reporting resolved for every
\* tracked escalation, the tracked list ends up empty and polling stops.  (A
\* run that fills the bounded timeline is followed no further.)
C30_EventuallyShownAndStopped ==
    /\ \A e \in EscIds : \A p \in 0..(MaxOps - 1) :
          ToBeShown(e, p) ~> (EntriesFor(e, p) # {} \/ TimelineFull)
    /\ <>[]AllResolved => <>[](PollingStopped \/ TimelineFull)

\* the operator's message was shown, the escalation resolved, polling has stopped
C30_Witness ==
    /\ PollingStopped
    /\ ~TimelineFull
    /\ backend["ESC-1"].status = "resolved"
    /\ EntriesFor("ESC-1", 0) # {}
    /\ showCSAT = "ESC-1"

====
